---- MODULE Spec2Model ----
(***************************************************************************)
(* Model of packages/ember-debug/lib/index.js: the debugFunctions table,   *)
(* its default implementations, the public entry points that dispatch      *)
(* through the table, _warnIfUsingStrippedFeatureFlags, and the module's   *)
(* evaluation (installation of the defaults, the features-stripped probe). *)
(***************************************************************************)
EXTENDS Integers, Sequences, FiniteSets, TLC

VARIABLES
    pc,                   \* position of the module's evaluation ("ready" once evaluated)
    installed,            \* how many of the setDebugFunction calls of lines 61-169 have run
    debugFunctions,       \* the exported table: own property name -> function value
    ENV,                  \* ember-environment's ENV: ENABLE_OPTIONAL_FEATURES, FEATURES
    FEATURES,             \* the FEATURES object of ember/features (line 7)
    DEFAULT_FEATURES,     \* the DEFAULT_FEATURES object of ember/features (line 7)
    testing,              \* what isTesting() answers
    stripped,             \* whether the build replaced feature-flag queries by constants
    featuresWereStripped, \* the local of lines 200-204
    canaryRead,           \* history: what isFeatureEnabled answered at line 202
    FEATURES0,            \* history: FEATURES when the module started to evaluate
    nsets,                \* how many setDebugFunction calls the embedding code has made
    lastOp,               \* history: the last operation called from outside, with its inputs
    log,                  \* the calls the last operation made, in order
    result,               \* how the last operation completed: a return value or a throw
    deprecated,           \* the value the last deprecateFunc call returned
    createdUnder,         \* history: debugFunctions.deprecate when `deprecated` was made
    createdFrom,          \* history: the arguments of the deprecateFunc call that made it
    registered            \* history: per name, the function most recently registered

vars == <<pc, installed, debugFunctions, ENV, FEATURES, DEFAULT_FEATURES, testing,
          stripped, featuresWereStripped, canaryRead, FEATURES0, nsets, lastOp, log,
          result, deprecated, createdUnder, createdFrom, registered>>

loadVars == <<pc, installed, FEATURES, DEFAULT_FEATURES, testing, stripped,
              featuresWereStripped, canaryRead, FEATURES0>>

\* Bound: setDebugFunction calls made by the embedding code after the module loaded.
MaxSets == 2

----------------------------------------------------------------------------
(* JavaScript values.  Every value is a record with a type tag t; strings   *)
(* are sequences of tokens so that concatenation and containment are real.  *)

Undefined == [t |-> "undefined"]
Null == [t |-> "null"]
Bool(b) == [t |-> "boolean", b |-> b]
Str(s) == [t |-> "string", s |-> s]
Fn(id) == [t |-> "function", id |-> id]
\* A plain object: its own enumerable properties in insertion order.
Obj(props) == [t |-> "object", props |-> props]
\* What a call of a function the module knows nothing about returns.
ResultOf(id, this, args) == [t |-> "result", of |-> id, this |-> this, args |-> args]

\* JavaScript's ToBoolean, as used by `!test`, `if (x)` and `x || {}`.
Truthy(v) ==
    CASE v.t = "undefined" -> FALSE
      [] v.t = "null" -> FALSE
      [] v.t = "boolean" -> v.b
      [] v.t = "string" -> v.s # <<>>
      [] OTHER -> TRUE

\* JavaScript's ToString, as used by a template literal `${v}`.
ToStr(v) ==
    CASE v.t = "string" -> v.s
      [] v.t = "undefined" -> <<"undefined">>
      [] v.t = "null" -> <<"null">>
      [] v.t = "boolean" -> IF v.b THEN <<"true">> ELSE <<"false">>
      [] v.t = "object" -> <<"[object Object]">>
      [] OTHER -> <<"function">>

\* s contains t as a contiguous substring.
Contains(s, t) ==
    \E i \in 0..(Len(s) - Len(t)) : SubSeq(s, i + 1, i + Len(t)) = t

\* arguments[i - 1]: undefined beyond the arguments passed.
Arg(args, i) == IF i \in 1..Len(args) THEN args[i] ELSE Undefined

\* Properties every plain object inherits from Object.prototype.
ObjectPrototypeKeys == {"constructor", "toString", "hasOwnProperty", "valueOf"}

\* Object.keys(o): the own property names, in insertion order.
ObjectKeys(o) == [i \in 1..Len(o.props) |-> o.props[i].k]

OwnKeys(o) == {o.props[i].k : i \in 1..Len(o.props)}

\* o[key] for a plain object o whose inherited properties are all functions.
GetProp(o, key) ==
    IF key \in OwnKeys(o)
    THEN (CHOOSE p \in {o.props[i] : i \in 1..Len(o.props)} : p.k = key).v
    ELSE IF key \in ObjectPrototypeKeys THEN Fn(key) ELSE Undefined

\* `key in o` for a plain object o: own and inherited properties.
HasProp(o, key) == key \in OwnKeys(o) \/ key \in ObjectPrototypeKeys

\* o[key] = v: an existing property keeps its place, a new one comes last.
SetProp(o, key, v) ==
    IF key \in OwnKeys(o)
    THEN Obj([i \in 1..Len(o.props) |->
                 IF o.props[i].k = key THEN [k |-> key, v |-> v] ELSE o.props[i]])
    ELSE Obj(Append(o.props, [k |-> key, v |-> v]))

\* delete o[key]
DeleteProp(o, key) == Obj(SelectSeq(o.props, LAMBDA p : p.k # key))

----------------------------------------------------------------------------
(* Outcomes of a call: the calls it made, and a return value or a throw.    *)

Event(entry, callee, this, args) ==
    [entry |-> entry, callee |-> callee, this |-> this, args |-> args]

Return(v) == [kind |-> "return", value |-> v]
Throw(type, message) ==
    [kind |-> "throw", value |-> [t |-> "error", type |-> type, message |-> message]]

Outcome(l, r) == [log |-> l, result |-> r]

----------------------------------------------------------------------------
(* The debugFunctions table and the default implementations.               *)

\* The nine names that have a public entry point (lines 251-285).
EntryNames ==
    {"assert", "info", "warn", "debug", "deprecate", "deprecateFunc", "runInDebug",
     "debugSeal", "debugFreeze"}

\* The names looked up: the nine, a name never given a default, an inherited one.
AllNames == EntryNames \cup {"other", "toString"}

\* The table as the object literal of lines 17-26 builds it.
InitialTable ==
    [n \in {"assert", "info", "warn", "debug", "deprecate", "deprecateFunc",
            "debugSeal", "debugFreeze"} |->
        IF n = "deprecateFunc" THEN Fn("initial.deprecateFunc")
        ELSE IF n = "assert" THEN Fn("initial.assert")
        ELSE IF n = "info" THEN Fn("initial.info")
        ELSE IF n = "warn" THEN Fn("initial.warn")
        ELSE IF n = "debug" THEN Fn("initial.debug")
        ELSE IF n = "deprecate" THEN Fn("initial.deprecate")
        ELSE IF n = "debugSeal" THEN Fn("initial.debugSeal")
        ELSE Fn("initial.debugFreeze")]

\* The empty functions of lines 18-22 and 24-25.
EmptyFunctionIds ==
    {"initial.assert", "initial.info", "initial.warn", "initial.debug",
     "initial.deprecate", "initial.debugSeal", "initial.debugFreeze"}

\* Functions of the embedding code: the module knows nothing about what they do.
UserFunctionIds == {"customFn", "f1", "f2"}

\* debugFunctions[name], debugFunctions.<name>: the own property, else what
\* Object.prototype gives.
TableGet(table, name) ==
    IF name \in DOMAIN table THEN table[name]
    ELSE IF name \in ObjectPrototypeKeys THEN Fn(name) ELSE Undefined

\* `return debugFunctions.name`: the property called "name".
getDebugFunctionDotName(table, name) == TableGet(table, "name")

\* return debugFunctions[name]
getDebugFunction(table, name) == TableGet(table, name)

\* Keeps what is registered already.
setDebugFunctionIfAbsent(table, name, fn) ==
    IF name \in DOMAIN table THEN table
    ELSE [n \in (DOMAIN table) \cup {name} |-> IF n = name THEN fn ELSE table[n]]

\* debugFunctions[name] = fn
setDebugFunction(table, name, fn) ==
    [n \in (DOMAIN table) \cup {name} |-> IF n = name THEN fn ELSE table[n]]

\* f.apply(this, args) for a value f the module did not define.
CallValue(f, this, args) ==
    IF f.t = "function"
    THEN Outcome(<<Event("", f.id, this, args)>>, Return(ResultOf(f.id, this, args)))
    ELSE Outcome(<<>>, Throw("TypeError", <<"not a function">>))

AssertionPrefix == <<"Assertion", "Failed:", " ">>

\* `if (test)` where the code has `if (!test)`.
DefaultAssertInverted(args) ==
    IF Truthy(Arg(args, 2))
    THEN Outcome(<<>>, Throw("EmberError", AssertionPrefix \o ToStr(Arg(args, 1))))
    ELSE Outcome(<<>>, Return(Undefined))

\* function assert(desc, test), lines 61-65
DefaultAssert(args) ==
    IF ~Truthy(Arg(args, 2))
    THEN Outcome(<<>>, Throw("EmberError", AssertionPrefix \o ToStr(Arg(args, 1))))
    ELSE Outcome(<<>>, Return(Undefined))

\* function debug(message), lines 81-83
DefaultDebug(args) ==
    Outcome(<<Event("", "Logger.debug", Undefined,
                    <<Str(<<"DEBUG:", " ">> \o ToStr(Arg(args, 1)))>>)>>,
            Return(Undefined))

\* function info(), lines 94-96
DefaultInfo(args) ==
    Outcome(<<Event("", "Logger.info", Undefined, args)>>, Return(Undefined))

\* function deprecateFunc(...args), lines 117-131: the function it returns,
\* with the variables that function closes over.
DefaultDeprecateFunc(args) ==
    IF Len(args) = 3
    THEN Outcome(<<>>, Return([t |-> "closure", withOptions |-> TRUE,
                               message |-> args[1], options |-> args[2],
                               func |-> args[3]]))
    ELSE Outcome(<<>>, Return([t |-> "closure", withOptions |-> FALSE,
                               message |-> Arg(args, 1), options |-> Undefined,
                               func |-> Arg(args, 2)]))

\* `return args[0]` where the code has `return args[args.length - 1]`.
InitialDeprecateFuncFirst(args) ==
    Outcome(<<>>, Return(Arg(args, 1)))

\* deprecateFunc(...args) { return args[args.length - 1]; }, line 23
InitialDeprecateFunc(args) ==
    Outcome(<<>>, Return(Arg(args, Len(args))))

\* function runInDebug(func), lines 155-157
DefaultRunInDebug(args) ==
    LET c == CallValue(Arg(args, 1), Undefined, <<>>)
    IN  IF c.result.kind = "throw" THEN c ELSE Outcome(c.log, Return(Undefined))

\* function debugSeal(obj), lines 159-161
DefaultDebugSeal(args) ==
    Outcome(<<Event("", "Object.seal", Undefined, <<Arg(args, 1)>>)>>, Return(Undefined))

\* function debugFreeze(obj), lines 163-165
DefaultDebugFreeze(args) ==
    Outcome(<<Event("", "Object.freeze", Undefined, <<Arg(args, 1)>>)>>,
            Return(Undefined))

\* _deprecate and _warn (./deprecate, ./warn): they report through their handler
\* chains and return; execution continues.
HandlerChain(args) == Outcome(<<>>, Return(Undefined))

\* The body of the function with identity id, applied to args with this = undefined.
RunImpl(id, args) ==
    CASE id \in EmptyFunctionIds -> Outcome(<<>>, Return(Undefined))
      [] id = "initial.deprecateFunc" -> InitialDeprecateFunc(args)
      [] id = "assert" -> DefaultAssert(args)
      [] id = "debug" -> DefaultDebug(args)
      [] id = "info" -> DefaultInfo(args)
      [] id = "deprecateFunc" -> DefaultDeprecateFunc(args)
      [] id = "runInDebug" -> DefaultRunInDebug(args)
      [] id = "debugSeal" -> DefaultDebugSeal(args)
      [] id = "debugFreeze" -> DefaultDebugFreeze(args)
      [] id \in {"_deprecate", "_warn"} -> HandlerChain(args)
      [] OTHER -> Outcome(<<>>, Return(ResultOf(id, Undefined, args)))

\* A public entry point, lines 251-285:
\*   return debugFunctions.<name>.apply(undefined, arguments);
Invoke(table, name, args) ==
    LET fn == TableGet(table, name)
    IN  IF fn.t # "function"
        THEN Outcome(<<>>, Throw("TypeError", <<"Cannot read property 'apply' of undefined">>))
        ELSE LET o == RunImpl(fn.id, args)
             IN  Outcome(<<Event(name, fn.id, Undefined, args)>> \o o.log, o.result)

\* `func(...arguments)` where the code has `func.apply(this, arguments)`.
CallReturnedWithoutThis(table, c, this, args) ==
    IF c.t # "closure" THEN CallValue(c, this, args)
    ELSE LET d == IF c.withOptions
                  THEN Invoke(table, "deprecate", <<c.message, Bool(FALSE), c.options>>)
                  ELSE Invoke(table, "deprecate", <<c.message>>)
         IN  IF d.result.kind = "throw" THEN d
             ELSE LET f == CallValue(c.func, Undefined, args)
                  IN  Outcome(d.log \o f.log, f.result)

\* `_deprecate(...)` where the code has `deprecate(...)`: the imported function
\* called directly, not the one registered when the wrapper is called.
CallReturnedBoundEarly(table, c, this, args) ==
    IF c.t # "closure" THEN CallValue(c, this, args)
    ELSE LET a == IF c.withOptions THEN <<c.message, Bool(FALSE), c.options>>
                  ELSE <<c.message>>
             d == Outcome(<<Event("deprecate", "_deprecate", Undefined, a)>>,
                          Return(Undefined))
             f == CallValue(c.func, this, args)
         IN  Outcome(d.log \o f.log, f.result)

\* The function deprecateFunc returned (lines 120-123 and 126-129), called with
\* `this` and `args`; a value that is no such closure is applied as it is.
CallReturned(table, c, this, args) ==
    IF c.t # "closure" THEN CallValue(c, this, args)
    ELSE LET d == IF c.withOptions
                  THEN Invoke(table, "deprecate", <<c.message, Bool(FALSE), c.options>>)
                  ELSE Invoke(table, "deprecate", <<c.message>>)
         IN  IF d.result.kind = "throw" THEN d
             ELSE LET f == CallValue(c.func, this, args)
                  IN  Outcome(d.log \o f.log, f.result)

\* The setDebugFunction calls of lines 61-169, in order.
DefaultInstalls ==
    << <<"assert", Fn("assert")>>, <<"debug", Fn("debug")>>, <<"info", Fn("info")>>,
       <<"deprecateFunc", Fn("deprecateFunc")>>, <<"runInDebug", Fn("runInDebug")>>,
       <<"debugSeal", Fn("debugSeal")>>, <<"debugFreeze", Fn("debugFreeze")>>,
       <<"deprecate", Fn("_deprecate")>>, <<"warn", Fn("_warn")>> >>

RECURSIVE InstallDefaults(_, _)
\* The table after the first n calls of DefaultInstalls.
InstallDefaults(table, n) ==
    IF n = 0 THEN table
    ELSE setDebugFunction(InstallDefaults(table, n - 1),
                            DefaultInstalls[n][1], DefaultInstalls[n][2])

\* The table once the module has been evaluated.
LoadedTable == InstallDefaults(InitialTable, Len(DefaultInstalls))

----------------------------------------------------------------------------
(* _warnIfUsingStrippedFeatureFlags, lines 181-195.                        *)

StrippedId ==
    Obj(<<[k |-> "id", v |-> Str(<<"ember-debug.feature-flag-with-features-stripped">>)]>>)

OptionalFeaturesMessage ==
    Str(<<"Ember.ENV.ENABLE_OPTIONAL_FEATURES is only available in canary builds.">>)

FlagMessage(key) ==
    Str(<<"FEATURE[\"", key, "\"] is set as enabled, but FEATURE flags are only available in canary builds.">>)

RECURSIVE WarnKeys(_, _, _, _, _)
\* The loop of lines 186-193 from index i on.
WarnKeys(table, features, knownFeatures, keys, i) ==
    IF i > Len(keys) THEN Outcome(<<>>, Return(Undefined))
    ELSE LET key == keys[i]
         IN  IF key = "isEnabled" \/ ~HasProp(knownFeatures, key)
             THEN WarnKeys(table, features, knownFeatures, keys, i + 1)
             ELSE LET w == Invoke(table, "warn",
                                  <<FlagMessage(key), Bool(~Truthy(GetProp(features, key))),
                                    StrippedId>>)
                  IN  IF w.result.kind = "throw" THEN w
                      ELSE LET rest == WarnKeys(table, features, knownFeatures, keys, i + 1)
                           IN  Outcome(w.log \o rest.log, rest.result)

\* The check without `if (featuresWereStripped)`.
WarnIfUsingStrippedFeatureFlagsAlways(table, env, features, knownFeatures, wereStripped) ==
    LET w == Invoke(table, "warn",
                    <<OptionalFeaturesMessage,
                      Bool(~Truthy(env.ENABLE_OPTIONAL_FEATURES)), StrippedId>>)
        f == IF Truthy(features) THEN features ELSE Obj(<<>>)
    IN  IF w.result.kind = "throw" THEN w
        ELSE LET rest == WarnKeys(table, f, knownFeatures, ObjectKeys(f), 1)
             IN  Outcome(w.log \o rest.log, rest.result)

\* export function _warnIfUsingStrippedFeatureFlags, lines 181-195
WarnIfUsingStrippedFeatureFlags(table, env, features, knownFeatures, wereStripped) ==
    IF ~Truthy(wereStripped) THEN Outcome(<<>>, Return(Undefined))
    ELSE LET w == Invoke(table, "warn",
                         <<OptionalFeaturesMessage,
                           Bool(~Truthy(env.ENABLE_OPTIONAL_FEATURES)), StrippedId>>)
             f == IF Truthy(features) THEN features ELSE Obj(<<>>)
         IN  IF w.result.kind = "throw" THEN w
             ELSE LET rest == WarnKeys(table, f, knownFeatures, ObjectKeys(f), 1)
                  IN  Outcome(w.log \o rest.log, rest.result)

----------------------------------------------------------------------------
(* Evaluation of the module: lines 17-26, 61-169, 197-241.                 *)

Canary == "features-stripped-test"

\* isFeatureEnabled (./features): a build that stripped the feature flags answers
\* every query from the build's constants, where the canary is not enabled;
\* another build reads the flag back from FEATURES.
isFeatureEnabled(strippedBuild, features, feature) ==
    ~strippedBuild /\ GetProp(features, feature) = Bool(TRUE)

\* export let runningNonEmberDebugJS = false; line 238
runningNonEmberDebugJS == FALSE

FlagA == [k |-> "a", v |-> Bool(TRUE)]
FlagB == [k |-> "b", v |-> Bool(FALSE)]

\* The FEATURES objects the module may find when it starts to evaluate.
LoadFeatures ==
    {Obj(<<>>), Obj(<<FlagA, FlagB>>), Obj(<<FlagA, [k |-> Canary, v |-> Bool(FALSE)], FlagB>>)}

\* The ENV.FEATURES values the module may find.
LoadEnvFeatures == {Undefined, Obj(<<FlagA, FlagB>>), Obj(<<[k |-> "c", v |-> Bool(TRUE)]>>)}

KnownAB == Obj(<<[k |-> "a", v |-> Null], [k |-> "b", v |-> Null]>>)

NoOp == [op |-> "load", this |-> Undefined, args |-> <<>>]

LoadInit ==
    /\ pc = "install"
    /\ installed = 0
    /\ debugFunctions = InitialTable
    /\ testing \in BOOLEAN
    /\ stripped \in BOOLEAN
    /\ ENV \in {[ENABLE_OPTIONAL_FEATURES |-> e, FEATURES |-> f] :
                   e \in {Undefined, Bool(TRUE)}, f \in LoadEnvFeatures}
    /\ FEATURES \in LoadFeatures
    /\ FEATURES0 = FEATURES
    /\ DEFAULT_FEATURES = KnownAB
    /\ featuresWereStripped = Undefined
    /\ canaryRead = Undefined
    /\ nsets = 0
    /\ lastOp = NoOp
    /\ log = <<>>
    /\ result = Return(Undefined)
    /\ deprecated = Undefined
    /\ createdUnder = Undefined
    /\ createdFrom = <<>>
    /\ registered = [n \in AllNames |->
                        IF n \in DOMAIN InitialTable THEN InitialTable[n] ELSE Undefined]

apiVars == <<nsets, lastOp, deprecated, createdUnder, createdFrom>>

\* One of the setDebugFunction calls of lines 61-169.
Install ==
    /\ pc = "install"
    /\ debugFunctions' = setDebugFunction(debugFunctions, DefaultInstalls[installed + 1][1],
                                          DefaultInstalls[installed + 1][2])
    /\ installed' = installed + 1
    /\ pc' = IF installed + 1 = Len(DefaultInstalls) THEN "isTesting" ELSE "install"
    /\ registered' = [registered EXCEPT ![DefaultInstalls[installed + 1][1]] =
                                            DefaultInstalls[installed + 1][2]]
    /\ UNCHANGED <<ENV, FEATURES, DEFAULT_FEATURES, testing, stripped, featuresWereStripped,
                   canaryRead, FEATURES0, log, result, apiVars>>

\* if (!isTesting()), line 197
CheckTesting ==
    /\ pc = "isTesting"
    /\ pc' = IF testing THEN "nonEmberDebugJS" ELSE "setCanary"
    /\ UNCHANGED <<installed, debugFunctions, ENV, FEATURES, DEFAULT_FEATURES, testing,
                   stripped, featuresWereStripped, canaryRead, FEATURES0, log, result,
                   apiVars, registered>>

\* lines 199-200
SetCanary ==
    /\ pc = "setCanary"
    /\ FEATURES' = SetProp(FEATURES, Canary, Bool(TRUE))
    /\ featuresWereStripped' = Bool(TRUE)
    /\ pc' = "queryCanary"
    /\ UNCHANGED <<installed, debugFunctions, ENV, DEFAULT_FEATURES, testing, stripped,
                   canaryRead, FEATURES0, log, result, apiVars, registered>>

\* Lines 202-204 without `featuresWereStripped = false`.
QueryCanaryNoReset ==
    /\ pc = "queryCanary"
    /\ canaryRead' = Bool(isFeatureEnabled(stripped, FEATURES, Canary))
    /\ pc' = "deleteCanary"
    /\ UNCHANGED <<installed, debugFunctions, ENV, FEATURES, DEFAULT_FEATURES, testing,
                   stripped, featuresWereStripped, FEATURES0, log, result, apiVars,
                   registered>>

\* lines 202-204
QueryCanary ==
    /\ pc = "queryCanary"
    /\ LET enabled == isFeatureEnabled(stripped, FEATURES, Canary)
       IN  /\ canaryRead' = Bool(enabled)
           /\ featuresWereStripped' = IF enabled THEN Bool(FALSE) ELSE featuresWereStripped
    /\ pc' = "deleteCanary"
    /\ UNCHANGED <<installed, debugFunctions, ENV, FEATURES, DEFAULT_FEATURES, testing,
                   stripped, FEATURES0, log, result, apiVars, registered>>

\* line 206
DeleteCanary ==
    /\ pc = "deleteCanary"
    /\ FEATURES' = DeleteProp(FEATURES, Canary)
    /\ pc' = "check"
    /\ UNCHANGED <<installed, debugFunctions, ENV, DEFAULT_FEATURES, testing, stripped,
                   featuresWereStripped, canaryRead, FEATURES0, log, result, apiVars, registered>>

\* line 207; lines 209-227 only register a listener for the window's load event.
RunCheck ==
    /\ pc = "check"
    /\ LET o == WarnIfUsingStrippedFeatureFlags(debugFunctions, ENV, ENV.FEATURES,
                                                DEFAULT_FEATURES, featuresWereStripped)
       IN  /\ log' = o.log
           /\ result' = o.result
           /\ pc' = IF o.result.kind = "throw" THEN "failed" ELSE "nonEmberDebugJS"
    /\ UNCHANGED <<installed, debugFunctions, ENV, FEATURES, DEFAULT_FEATURES, testing,
                   stripped, featuresWereStripped, canaryRead, FEATURES0, apiVars, registered>>

\* lines 238-241
NonEmberDebugJS ==
    /\ pc = "nonEmberDebugJS"
    /\ LET o == IF runningNonEmberDebugJS
                THEN Invoke(debugFunctions, "warn",
                            <<Str(<<"Please use ember.debug.js instead of ember.js for development and debugging.">>)>>)
                ELSE Outcome(<<>>, Return(Undefined))
       IN  /\ log' = log \o o.log
           /\ result' = o.result
           /\ pc' = IF o.result.kind = "throw" THEN "failed" ELSE "ready"
    /\ UNCHANGED <<installed, debugFunctions, ENV, FEATURES, DEFAULT_FEATURES, testing,
                   stripped, featuresWereStripped, canaryRead, FEATURES0, apiVars, registered>>

LoadNext ==
    \/ Install
    \/ CheckTesting
    \/ SetCanary
    \/ QueryCanary
    \/ DeleteCanary
    \/ RunCheck
    \/ NonEmberDebugJS

\* The module's evaluation, from the object literal of line 17 on.
SpecLoad == LoadInit /\ [][LoadNext]_vars

----------------------------------------------------------------------------
(* The module once evaluated: the operations the embedding code calls.     *)

\* The function the evaluation registered last under name, if any.
LastInstalled(name) ==
    LET at == {i \in 1..Len(DefaultInstalls) : DefaultInstalls[i][1] = name}
    IN  IF at # {}
        THEN DefaultInstalls[CHOOSE i \in at : \A j \in at : j <= i][2]
        ELSE IF name \in DOMAIN InitialTable THEN InitialTable[name] ELSE Undefined

\* The state the evaluation ends in under isTesting(), with ENV as given.
Loaded(env) ==
    /\ pc = "ready"
    /\ installed = Len(DefaultInstalls)
    /\ debugFunctions = LoadedTable
    /\ testing = TRUE
    /\ stripped = FALSE
    /\ ENV = env
    /\ FEATURES = Obj(<<FlagA, FlagB>>)
    /\ FEATURES0 = FEATURES
    /\ DEFAULT_FEATURES = KnownAB
    /\ featuresWereStripped = Undefined
    /\ canaryRead = Undefined
    /\ nsets = 0
    /\ lastOp = NoOp
    /\ log = <<>>
    /\ result = Return(Undefined)
    /\ deprecated = Undefined
    /\ createdUnder = Undefined
    /\ createdFrom = <<>>
    /\ registered = [n \in AllNames |-> LastInstalled(n)]

EnvOff == [ENABLE_OPTIONAL_FEATURES |-> Undefined, FEATURES |-> Undefined]
EnvOn == [ENABLE_OPTIONAL_FEATURES |-> Bool(TRUE), FEATURES |-> Undefined]

\* What the last call from outside did.
Called(op, this, args, o) ==
    /\ pc = "ready"
    /\ lastOp' = [op |-> op, this |-> this, args |-> args]
    /\ log' = o.log
    /\ result' = o.result

\* export function setDebugFunction(name, fn), lines 247-249
SetDebugFunction(name, fn) ==
    /\ nsets < MaxSets
    /\ Called("setDebugFunction", Undefined, <<Str(<<name>>), fn>>,
              Outcome(<<>>, Return(Undefined)))
    /\ debugFunctions' = setDebugFunction(debugFunctions, name, fn)
    /\ nsets' = nsets + 1
    /\ registered' = [registered EXCEPT ![name] = fn]
    /\ UNCHANGED <<loadVars, ENV, deprecated, createdUnder, createdFrom>>

\* export function getDebugFunction(name), lines 243-245
GetDebugFunction(name) ==
    /\ Called("getDebugFunction", Undefined, <<Str(<<name>>)>>,
              Outcome(<<>>, Return(getDebugFunction(debugFunctions, name))))
    /\ UNCHANGED <<loadVars, ENV, debugFunctions, nsets, deprecated, createdUnder, createdFrom,
                   registered>>

\* A call of the public entry point `name` with the arguments args.
Entry(name, args) ==
    /\ Called(name, Undefined, args, Invoke(debugFunctions, name, args))
    /\ UNCHANGED <<loadVars, ENV, debugFunctions, nsets, deprecated, createdUnder, createdFrom,
                   registered>>

\* export function assert(), lines 251-253
assert(args) == Entry("assert", args)
\* export function info(), lines 255-257
info(args) == Entry("info", args)
\* export function warn(), lines 259-261
warn(args) == Entry("warn", args)
\* export function debug(), lines 263-265
debug(args) == Entry("debug", args)
\* export function deprecate(), lines 267-269
deprecate(args) == Entry("deprecate", args)
\* export function deprecateFunc(), lines 271-273
deprecateFunc(args) == Entry("deprecateFunc", args)
\* export function runInDebug(), lines 275-277
runInDebug(args) == Entry("runInDebug", args)
\* export function debugSeal(), lines 279-281
debugSeal(args) == Entry("debugSeal", args)
\* export function debugFreeze(), lines 283-285
debugFreeze(args) == Entry("debugFreeze", args)

\* Ember.oldMethod = Ember.deprecateFunc(...), line 107: the embedding code keeps
\* what deprecateFunc just returned.
AssignDeprecated ==
    /\ pc = "ready"
    /\ lastOp.op = "deprecateFunc"
    /\ result.kind = "return"
    /\ deprecated' = result.value
    /\ createdUnder' = TableGet(debugFunctions, "deprecate")
    /\ createdFrom' = lastOp.args
    /\ UNCHANGED <<loadVars, ENV, debugFunctions, nsets, lastOp, log, result, registered>>

\* Ember.oldMethod(...args) with `this`: a call of the kept function.
CallDeprecated(this, args) ==
    /\ deprecated.t \in {"closure", "function"}
    /\ Called("deprecated", this, args, CallReturned(debugFunctions, deprecated, this, args))
    /\ UNCHANGED <<loadVars, ENV, debugFunctions, nsets, deprecated, createdUnder, createdFrom,
                   registered>>

\* export function _warnIfUsingStrippedFeatureFlags, lines 181-195
CallWarnIfUsingStrippedFeatureFlags(features, knownFeatures, wereStripped) ==
    /\ Called("_warnIfUsingStrippedFeatureFlags", Undefined,
              <<features, knownFeatures, wereStripped>>,
              WarnIfUsingStrippedFeatureFlags(debugFunctions, ENV, features, knownFeatures,
                                              wereStripped))
    /\ UNCHANGED <<loadVars, ENV, debugFunctions, nsets, deprecated, createdUnder, createdFrom,
                   registered>>

----------------------------------------------------------------------------
(* Inputs.                                                                 *)

M1 == Str(<<"use", " ", "newMethod">>)
M2 == Str(<<"old">>)
O1 == Obj(<<[k |-> "id", v |-> Str(<<"x.y">>)]>>)
A1 == Str(<<"arg">>)
Receiver == Obj(<<[k |-> "name", v |-> Str(<<"receiver">>)]>>)

\* The functions the embedding code may register under name: its own function,
\* the no-op of the initial table, and the default.
Registrable(name) ==
    {Fn("customFn")}
    \cup (IF name \in DOMAIN InitialTable THEN {InitialTable[name]} ELSE {})
    \cup (IF name \in DOMAIN LoadedTable THEN {LoadedTable[name]} ELSE {})

AssertArgs ==
    {<<d, v>> : d \in {M1, M2}, v \in {Bool(TRUE), Bool(FALSE), Undefined, Receiver}}
    \cup {<<M1>>}

MessageArgs == {<<>>, <<M1>>, <<M2, A1>>}

HandlerArgs == {<<M1>>, <<M1, Bool(FALSE), O1>>, <<M2, Bool(TRUE), O1>>}

DeprecateFuncArgs ==
    {<<M1, Fn("f1")>>, <<M2, Fn("f2")>>, <<M1, O1, Fn("f1")>>, <<M2, O1, Fn("f2")>>}

CallArgs == {<<>>, <<A1>>, <<A1, M2>>}

\* The registry: every name, every entry point.
Next ==
    \/ \E name \in EntryNames \cup {"other"} :
          \E fn \in Registrable(name) : SetDebugFunction(name, fn)
    \/ \E name \in EntryNames \cup {"other", "toString"} : GetDebugFunction(name)
    \/ \E args \in AssertArgs : assert(args)
    \/ \E args \in MessageArgs : info(args)
    \/ \E args \in HandlerArgs : warn(args)
    \/ \E args \in MessageArgs : debug(args)
    \/ \E args \in HandlerArgs : deprecate(args)
    \/ \E args \in {<<M1, Fn("f1")>>, <<M2, O1, Fn("f2")>>} : deprecateFunc(args)
    \/ \E args \in {<<Fn("f1")>>, <<Fn("f2")>>} : runInDebug(args)
    \/ \E args \in {<<Receiver>>, <<O1>>} : debugSeal(args)
    \/ \E args \in {<<Receiver>>, <<O1>>} : debugFreeze(args)

Init == Loaded(EnvOff)

Spec == Init /\ [][Next]_vars

\* deprecateFunc and the functions it returns, with assert, deprecate and
\* deprecateFunc replaceable.
DeprecateNext ==
    \/ \E name \in {"assert", "deprecate", "deprecateFunc"} :
          \E fn \in Registrable(name) : SetDebugFunction(name, fn)
    \/ \E args \in {<<d, v>> : d \in {M1, M2}, v \in {Bool(TRUE), Bool(FALSE)}} : assert(args)
    \/ \E args \in DeprecateFuncArgs : deprecateFunc(args)
    \/ AssignDeprecated
    \/ \E this \in {Undefined, Receiver} : \E args \in CallArgs : CallDeprecated(this, args)

SpecDeprecate == Init /\ [][DeprecateNext]_vars

FlagC == [k |-> "c", v |-> Bool(TRUE)]

\* The FEATURES arguments of _warnIfUsingStrippedFeatureFlags.
FlagsInputs ==
    {Undefined, Null, Obj(<<FlagA, FlagB>>),
     Obj(<<FlagC, [k |-> "isEnabled", v |-> Fn("isEnabled")], FlagA>>),
     Obj(<<[k |-> "b", v |-> M2], [k |-> "a", v |-> Null]>>),
     Obj(<<FlagB, [k |-> "constructor", v |-> Bool(TRUE)]>>)}

\* The knownFeatures arguments.
KnownInputs ==
    {KnownAB, Obj(<<>>),
     Obj(<<[k |-> "isEnabled", v |-> Null], [k |-> "a", v |-> Null], [k |-> "c", v |-> Null]>>)}

\* The feature-flag check, with warn replaceable.
FlagsNext ==
    \/ \E fn \in Registrable("warn") : SetDebugFunction("warn", fn)
    \/ \E f \in FlagsInputs : \E k \in KnownInputs :
          \E w \in {Bool(TRUE), Bool(FALSE), Undefined} : CallWarnIfUsingStrippedFeatureFlags(f, k, w)

FlagsInit == Loaded(EnvOff) \/ Loaded(EnvOn)

SpecFlags == FlagsInit /\ [][FlagsNext]_vars

----------------------------------------------------------------------------
(* Properties.                                                             *)

\* The identities of the functions a name of the table may hold.
ImplementationIds ==
    {InitialTable[n].id : n \in DOMAIN InitialTable}
    \cup {DefaultInstalls[i][2].id : i \in 1..Len(DefaultInstalls)}
    \cup {"customFn"}

\* The name a getDebugFunction or setDebugFunction call was given.
NameOf(op) == op.args[1].s[1]

\* C1: with the default assert registered, assert(desc, test) returns, having
\* called nothing but the implementation, when test is truthy, and throws an
\* error whose message contains desc when test is falsy.
C1_AssertFailsIffFalsy ==
    (pc = "ready" /\ lastOp.op = "assert" /\ registered["assert"] = Fn("assert")) =>
        IF Truthy(Arg(lastOp.args, 2))
        THEN /\ result = Return(Undefined)
             /\ log = <<Event("assert", "assert", Undefined, lastOp.args)>>
        ELSE /\ result.kind = "throw"
             /\ result.value.type = "EmberError"
             /\ Contains(result.value.message, ToStr(Arg(lastOp.args, 1)))

C1_Witness ==
    /\ lastOp.op = "assert"
    /\ registered["assert"] = Fn("assert")
    /\ lastOp.args = <<M2, Bool(FALSE)>>
    /\ result.kind = "throw"

\* C2: a call of the wrapper the default deprecateFunc(msg, [options,] fn)
\* returned calls the deprecate entry point exactly once, first, with the message
\* (and false and the options when options were given), then fn exactly once with
\* the wrapper's `this` and arguments, and returns what fn returned.
C2_WrapperWarnsThenCalls ==
    (pc = "ready" /\ lastOp.op = "deprecated" /\ deprecated.t = "closure") =>
        LET fn == createdFrom[Len(createdFrom)]
            warned == {i \in 1..Len(log) : log[i].entry = "deprecate"}
            called == {i \in 1..Len(log) : log[i].entry = "" /\ log[i].callee = fn.id}
        IN  /\ warned = {1}
            /\ log[1].args = IF Len(createdFrom) = 3
                             THEN <<createdFrom[1], Bool(FALSE), createdFrom[2]>>
                             ELSE <<createdFrom[1]>>
            /\ called = {Len(log)}
            /\ Len(log) > 1
            /\ log[Len(log)] = Event("", fn.id, lastOp.this, lastOp.args)
            /\ result = Return(ResultOf(fn.id, lastOp.this, lastOp.args))

C2_Witness ==
    /\ lastOp.op = "deprecated"
    /\ deprecated.t = "closure"
    /\ createdFrom = <<M2, O1, Fn("f2")>>
    /\ lastOp.this = Receiver
    /\ lastOp.args = <<A1, M2>>
    /\ result.kind = "return"

\* C3: a call of the entry point of a name calls the function most recently
\* registered under that name, once, with undefined as `this` and the call's
\* arguments, calls no other function a name holds or held, and returns what
\* that function returns.
C3_EntryCallsLatestRegistered ==
    (pc = "ready" /\ lastOp.op \in EntryNames) =>
        LET fn == registered[lastOp.op]
        IN  /\ fn.t = "function"
            /\ {i \in 1..Len(log) : log[i].callee \in ImplementationIds} = {1}
            /\ log[1] = Event(lastOp.op, fn.id, Undefined, lastOp.args)
            /\ result = RunImpl(fn.id, lastOp.args).result
            /\ fn = Fn("customFn") =>
                  result = Return(ResultOf("customFn", Undefined, lastOp.args))

C3_Witness ==
    /\ lastOp.op = "warn"
    /\ registered["warn"] = Fn("customFn")
    /\ nsets = MaxSets
    /\ lastOp.args = <<M1, Bool(FALSE), O1>>
    /\ log = <<Event("warn", "customFn", Undefined, lastOp.args)>>

FlagKeys == {"a", "b", "c", "isEnabled", "constructor"}

\* C4: called with featuresWereStripped truthy, the check emits (calls warn with
\* a false test) once for the global switch iff ENV.ENABLE_OPTIONAL_FEATURES is
\* truthy, once for each own key of the flags that is an own key of
\* knownFeatures, is not isEnabled and has a truthy value, and for nothing else.
C4_WarnsExactlyForKnownTruthyFlags ==
    (pc = "ready" /\ lastOp.op = "_warnIfUsingStrippedFeatureFlags"
       /\ Truthy(lastOp.args[3])) =>
        LET flags == IF Truthy(lastOp.args[1]) THEN lastOp.args[1] ELSE Obj(<<>>)
            known == lastOp.args[2]
            emitted == {i \in 1..Len(log) :
                           log[i].entry = "warn" /\ log[i].args[2] = Bool(FALSE)}
            global == {i \in emitted : log[i].args[1] = OptionalFeaturesMessage}
            about(k) == {i \in emitted : log[i].args[1] = FlagMessage(k)}
        IN  /\ Cardinality(global) = IF Truthy(ENV.ENABLE_OPTIONAL_FEATURES) THEN 1 ELSE 0
            /\ \A k \in FlagKeys :
                  Cardinality(about(k)) =
                      IF /\ k \in OwnKeys(flags)
                         /\ k \in OwnKeys(known)
                         /\ k # "isEnabled"
                         /\ Truthy(GetProp(flags, k))
                      THEN 1 ELSE 0
            /\ emitted = global \cup UNION {about(k) : k \in FlagKeys}

\* C5: called with featuresWereStripped falsy, the check calls nothing, returns
\* undefined and changes no state.
C5_NoWarningUnlessStripped ==
    [][(lastOp'.op = "_warnIfUsingStrippedFeatureFlags" /\ ~Truthy(lastOp'.args[3])) =>
          /\ log' = <<>>
          /\ result' = Return(Undefined)
          /\ UNCHANGED <<loadVars, debugFunctions, ENV, nsets, deprecated, createdUnder,
                         createdFrom, registered>>]_vars

C5_Witness ==
    /\ lastOp.op = "_warnIfUsingStrippedFeatureFlags"
    /\ lastOp.args = <<Obj(<<FlagA, FlagB>>), KnownAB, Bool(FALSE)>>
    /\ ENV = EnvOn
    /\ log = <<>>

C7_LookupFailsWhenUnregistered ==
    (pc = "ready" /\ lastOp.op = "getDebugFunction") =>
        IF registered[NameOf(lastOp)].t = "function"
        THEN result = Return(registered[NameOf(lastOp)])
        ELSE result.kind = "throw"

\* C7, amended: getDebugFunction(name) never fails; it returns the function
\* registered under name, and when none is registered it returns undefined, or
\* for a name Object.prototype defines the inherited property.
C7_LookupReturnsUndefinedWhenUnregistered ==
    (pc = "ready" /\ lastOp.op = "getDebugFunction") =>
        /\ result.kind = "return"
        /\ result.value =
              IF registered[NameOf(lastOp)].t = "function" THEN registered[NameOf(lastOp)]
              ELSE IF NameOf(lastOp) \in ObjectPrototypeKeys THEN Fn(NameOf(lastOp))
              ELSE Undefined

C7_Witness ==
    /\ lastOp.op = "getDebugFunction"
    /\ NameOf(lastOp) = "other"
    /\ registered["other"] = Undefined
    /\ registered["warn"] = Fn("customFn")
    /\ result = Return(Undefined)

\* C8: in every state of the table, from the object literal on, each of the nine
\* names with an entry point holds a function.
C8_EveryEntryNameRegistered ==
    \A n \in EntryNames : TableGet(debugFunctions, n).t = "function"

\* C9: the probe runs only when not testing; it queries isFeatureEnabled while
\* the canary is set to true; featuresWereStripped, which the check is then
\* given, is true iff that query answered false; and when the check runs the
\* canary is no key of FEATURES and every other entry is as it was.
C9_ProbeRestoresFeatures ==
    /\ testing => (canaryRead = Undefined /\ FEATURES = FEATURES0)
    /\ pc = "queryCanary" => GetProp(FEATURES, Canary) = Bool(TRUE)
    /\ (~testing /\ pc \in {"deleteCanary", "check", "nonEmberDebugJS", "ready"}) =>
          /\ canaryRead \in {Bool(TRUE), Bool(FALSE)}
          /\ featuresWereStripped = Bool(~canaryRead.b)
    /\ (~testing /\ pc \in {"check", "nonEmberDebugJS", "ready"}) =>
          /\ Canary \notin OwnKeys(FEATURES)
          /\ FEATURES = DeleteProp(FEATURES0, Canary)
          /\ \A k \in OwnKeys(FEATURES0) \ {Canary} :
                GetProp(FEATURES, k) = GetProp(FEATURES0, k)
    /\ (~testing /\ pc \in {"nonEmberDebugJS", "ready"}) =>
          ((log # <<>>) <=> (canaryRead = Bool(FALSE)))

C9_Witness ==
    /\ pc = "nonEmberDebugJS"
    /\ ~testing
    /\ ~stripped
    /\ canaryRead = Bool(TRUE)
    /\ featuresWereStripped = Bool(FALSE)
    /\ Canary \in OwnKeys(FEATURES0)
    /\ Canary \notin OwnKeys(FEATURES)

\* C10: a call of a wrapper the default deprecateFunc returned calls, once, the
\* function registered under deprecate when the wrapper is called, and does not
\* call the one that was registered when the wrapper was made if that differs.
C10_WrapperBindsDeprecateLate ==
    (pc = "ready" /\ lastOp.op = "deprecated" /\ deprecated.t = "closure") =>
        /\ {i \in 1..Len(log) : log[i].callee \in ImplementationIds} = {1}
        /\ log[1].entry = "deprecate"
        /\ log[1].callee = registered["deprecate"].id
        /\ createdUnder # registered["deprecate"] =>
              \A i \in 1..Len(log) : log[i].callee # createdUnder.id

C10_Witness ==
    /\ lastOp.op = "deprecated"
    /\ deprecated.t = "closure"
    /\ createdUnder = Fn("_deprecate")
    /\ registered["deprecate"] = Fn("customFn")
    /\ log[1].callee = "customFn"

====
